---- MODULE Spec2Model ----
(***************************************************************************)
(* Model of the schedule manager (src/schedule.py): the Event record, its  *)
(* conversion to and from the mapping written to the JSON file, and the    *)
(* ScheduleManager with its persisted file; of the command line            *)
(* (src/schedule_cli.py), one process per invocation; and of two           *)
(* processes that work on the same file side by side.                      *)
(*                                                                         *)
(* Texts that the code orders (date, time) are sequences of character      *)
(* codes, compared the way Python compares str; title and description are  *)
(* only copied and compared for equality and are TLA+ strings.             *)
(* An Optional[str] argument is Null (None) or Some(text).                 *)
(***************************************************************************)
EXTENDS Integers, Sequences, FiniteSets, TLC

VARIABLES
    events,    \* self.events: the collection, in insertion order
    next_id,   \* self.next_id
    file,      \* the content of self.data_file
    alive,     \* the constructor returned a manager
    last,      \* the last call: its arguments and what it returned
    issued,    \* ids this manager object has assigned in add_event
    live,      \* ids add_event returned that no delete_event has removed
    faulty,    \* whether persistence writes may fail in this behaviour
    fails,     \* persistence writes that failed so far
    assigned,  \* ids add_event assigned on this file, by any manager, in order
    procs      \* the managers of processes that run side by side on the file

vars ==
    <<events, next_id, file, alive, last, issued, live, faulty, fails,
      assigned, procs>>

(***************************************************************************)
(* Bounds of the model.                                                    *)
(***************************************************************************)
MaxEvents == 2       \* add is explored while the collection is shorter
MaxId == 3           \* add is explored while next_id <= MaxId
MaxFail == 1         \* failed persistence writes explored per behaviour

(***************************************************************************)
(* Values.                                                                 *)
(***************************************************************************)
None == -1           \* the id of an Event that was given none (JSON null)

Null == <<>>
Some(x) == <<x>>

Titles == {"", "A"}
Descriptions == {"", "x"}
\* "15" < "9" as str although 15 > 9 as numbers; "" is the empty text
Dates == {<<>>, <<1, 5>>, <<9>>}
\* "1" < "10": a proper prefix sorts first
Times == {<<1>>, <<1, 0>>}

(***************************************************************************)
(* Event                                                                   *)
(***************************************************************************)
Event(title, date, time, description) ==
    [id |-> None, title |-> title, date |-> date, time |-> time,
     description |-> description]

to_dict(e) ==
    [id |-> e.id, title |-> e.title, date |-> e.date, time |-> e.time,
     description |-> e.description]

\* data['title'], data['date'], data['time'] raise KeyError when absent
RequiredKeys == {"title", "date", "time"}

\* a JSON value that is no mapping, standing where an event mapping should
NotAMapping == [scalar |-> 0]

IsMapping(data) == "scalar" \notin DOMAIN data

from_dict(data) ==
    LET event == Event(data.title, data.date, data.time,
                       IF "description" \in DOMAIN data
                       THEN data.description ELSE "")
    IN [event EXCEPT !.id = IF "id" \in DOMAIN data THEN data.id ELSE None]

(***************************************************************************)
(* The persisted file.  kind "absent": no file at the path; "invalid": the *)
(* content is no JSON text (malformed, truncated or empty);                *)
(* "nonmapping": JSON text whose top-level value is no object (a list, a   *)
(* number, ...); "mapping": a JSON object, data maps its keys.             *)
(***************************************************************************)
Absent == [kind |-> "absent"]
Invalid == [kind |-> "invalid"]
NonMapping == [kind |-> "nonmapping"]
Mapping(data) == [kind |-> "mapping", data |-> data]

\* the state of a manager object: [events, next_id]
Self(evs, nid) == [events |-> evs, next_id |-> nid]

\* save_events: outcome "ok" writes the whole state; "open_failed": open()
\* raises and the file is untouched; "write_failed": the file was opened
\* (truncated) and json.dump raised before the text was complete
SaveOutcomes == {"ok", "open_failed", "write_failed"}

\* next_id recomputed from the length of the collection
save_events_counts(self, outcome, old) ==
    Mapping([next_id |-> Len(self.events) + 1,
             events |-> [i \in 1 .. Len(self.events) |->
                            [id |-> self.events[i].id,
                             title |-> self.events[i].title,
                             date |-> self.events[i].date,
                             time |-> self.events[i].time,
                             description |-> self.events[i].description]]])

\* only the events are written, next_id is left out of the file
save_events_without_next_id(self, outcome, old) ==
    Mapping([events |-> [i \in 1 .. Len(self.events) |->
                            [id |-> self.events[i].id,
                             title |-> self.events[i].title,
                             date |-> self.events[i].date,
                             time |-> self.events[i].time,
                             description |-> self.events[i].description]]])

\* the text goes to a temporary file that replaces the file when complete
save_events_atomic(self, outcome, old) ==
    CASE outcome = "ok" ->
           Mapping([next_id |-> self.next_id,
                    events |-> [i \in 1 .. Len(self.events) |->
                                   to_dict(self.events[i])]])
      [] OTHER -> old

save_events(self, outcome, old) ==
    CASE outcome = "ok" ->
           Mapping([next_id |-> self.next_id,
                    events |-> [i \in 1 .. Len(self.events) |->
                                   to_dict(self.events[i])]])
      [] outcome = "open_failed" -> old
      [] outcome = "write_failed" -> Invalid

\* [Event.from_dict(e) for e in items]: the first item that raises decides
RECURSIVE FirstBad(_, _)
FirstBad(items, i) ==
    IF i > Len(items) THEN "none"
    ELSE IF ~IsMapping(items[i]) THEN "TypeError"
    ELSE IF ~(RequiredKeys \subseteq DOMAIN items[i]) THEN "KeyError"
    ELSE FirstBad(items, i + 1)

\* next_id of the file not restored
load_events_keeps_next_id(self, f) ==
    IF f.kind = "absent" THEN
        [events |-> self.events, next_id |-> self.next_id, raised |-> FALSE]
    ELSE IF f.kind = "invalid" THEN
        [events |-> <<>>, next_id |-> 1, raised |-> FALSE]
    ELSE IF f.kind = "nonmapping" THEN
        [events |-> self.events, next_id |-> self.next_id, raised |-> TRUE]
    ELSE
        LET items == IF "events" \in DOMAIN f.data THEN f.data.events ELSE <<>>
            bad == FirstBad(items, 1)
        IN CASE bad = "none" ->
                  [events |-> [i \in 1 .. Len(items) |-> from_dict(items[i])],
                   next_id |-> self.next_id, raised |-> FALSE]
             [] bad = "KeyError" ->
                  [events |-> <<>>, next_id |-> 1, raised |-> FALSE]
             [] bad = "TypeError" ->
                  [events |-> self.events, next_id |-> self.next_id,
                   raised |-> TRUE]

\* load_events on a manager that __init__ left at self; raised: an
\* exception the method does not catch leaves it
load_events(self, f) ==
    IF f.kind = "absent" THEN
        [events |-> self.events, next_id |-> self.next_id, raised |-> FALSE]
    ELSE IF f.kind = "invalid" THEN        \* json.JSONDecodeError, caught
        [events |-> <<>>, next_id |-> 1, raised |-> FALSE]
    ELSE IF f.kind = "nonmapping" THEN     \* data.get: AttributeError
        [events |-> self.events, next_id |-> self.next_id, raised |-> TRUE]
    ELSE
        LET data == f.data
            nid == IF "next_id" \in DOMAIN data THEN data.next_id ELSE 1
            items == IF "events" \in DOMAIN data THEN data.events ELSE <<>>
            bad == FirstBad(items, 1)
        IN CASE bad = "none" ->
                  [events |-> [i \in 1 .. Len(items) |-> from_dict(items[i])],
                   next_id |-> nid, raised |-> FALSE]
             [] bad = "KeyError" ->        \* caught: reset
                  [events |-> <<>>, next_id |-> 1, raised |-> FALSE]
             [] bad = "TypeError" ->       \* not caught: next_id was assigned
                  [events |-> self.events, next_id |-> nid, raised |-> TRUE]

\* the constructor without its call of load_events
init_without_load(f) == [events |-> <<>>, next_id |-> 1, raised |-> FALSE]

\* ScheduleManager.__init__
init(f) == load_events(Self(<<>>, 1), f)

(***************************************************************************)
(* ScheduleManager methods, as functions of the manager's state.           *)
(***************************************************************************)
\* position of the first event whose id is event_id, 0 when there is none
RECURSIVE FirstIndex(_, _, _)
FirstIndex(evs, event_id, i) ==
    IF i > Len(evs) THEN 0
    ELSE IF evs[i].id = event_id THEN i
    ELSE FirstIndex(evs, event_id, i + 1)

get_event(evs, event_id) ==
    LET i == FirstIndex(evs, event_id, 1)
    IN IF i = 0 THEN Null ELSE Some(evs[i])

\* the id taken from the length of the collection
add_event_counts(self, event) ==
    [next_id |-> self.next_id + 1,
     events |-> Append(self.events,
                       [event EXCEPT !.id = Len(self.events) + 1])]

add_event(self, event) ==
    [next_id |-> self.next_id + 1,
     events |-> Append(self.events, [event EXCEPT !.id = self.next_id])]

\* "if title:" in place of "if title is not None:", for every field
update_event_truthy(self, event_id, title, date, time, description) ==
    LET i == FirstIndex(self.events, event_id, 1)
    IN IF i = 0 THEN [events |-> self.events, saves |-> FALSE, ret |-> FALSE]
       ELSE LET e0 == self.events[i]
                e1 == IF title # Null /\ title[1] # ""
                      THEN [e0 EXCEPT !.title = title[1]] ELSE e0
                e2 == IF date # Null /\ date[1] # <<>>
                      THEN [e1 EXCEPT !.date = date[1]] ELSE e1
                e3 == IF time # Null /\ time[1] # <<>>
                      THEN [e2 EXCEPT !.time = time[1]] ELSE e2
                e4 == IF description # Null /\ description[1] # ""
                      THEN [e3 EXCEPT !.description = description[1]] ELSE e3
            IN [events |-> [self.events EXCEPT ![i] = e4],
                saves |-> TRUE, ret |-> TRUE]

\* description defaulting to "" in place of None: always written
update_event_no_default(self, event_id, title, date, time, description) ==
    LET i == FirstIndex(self.events, event_id, 1)
    IN IF i = 0 THEN [events |-> self.events, saves |-> FALSE, ret |-> FALSE]
       ELSE LET e0 == self.events[i]
                e1 == IF title # Null THEN [e0 EXCEPT !.title = title[1]] ELSE e0
                e2 == IF date # Null THEN [e1 EXCEPT !.date = date[1]] ELSE e1
                e3 == IF time # Null THEN [e2 EXCEPT !.time = time[1]] ELSE e2
                e4 == [e3 EXCEPT !.description =
                          IF description # Null THEN description[1] ELSE ""]
            IN [events |-> [self.events EXCEPT ![i] = e4],
                saves |-> TRUE, ret |-> TRUE]

\* the file rewritten also when no event has the id
update_event_always_saves(self, event_id, title, date, time, description) ==
    [events |-> [i \in 1 .. Len(self.events) |->
                    IF self.events[i].id = event_id /\ title # Null
                    THEN [self.events[i] EXCEPT !.title = title[1]]
                    ELSE self.events[i]],
     saves |-> TRUE,
     ret |-> \E i \in 1 .. Len(self.events) : self.events[i].id = event_id]

\* saves: whether save_events is called; ret: the value returned when the
\* save (if any) does not raise
update_event(self, event_id, title, date, time, description) ==
    LET i == FirstIndex(self.events, event_id, 1)
    IN IF i = 0 THEN [events |-> self.events, saves |-> FALSE, ret |-> FALSE]
       ELSE LET e0 == self.events[i]
                e1 == IF title # Null THEN [e0 EXCEPT !.title = title[1]] ELSE e0
                e2 == IF date # Null THEN [e1 EXCEPT !.date = date[1]] ELSE e1
                e3 == IF time # Null THEN [e2 EXCEPT !.time = time[1]] ELSE e2
                e4 == IF description # Null
                      THEN [e3 EXCEPT !.description = description[1]] ELSE e3
            IN [events |-> [self.events EXCEPT ![i] = e4],
                saves |-> TRUE, ret |-> TRUE]

\* the last element removed, whichever event was found
delete_event_pops(self, event_id) ==
    IF \E i \in 1 .. Len(self.events) : self.events[i].id = event_id
    THEN [events |-> SubSeq(self.events, 1, Len(self.events) - 1),
          saves |-> TRUE, ret |-> TRUE]
    ELSE [events |-> self.events, saves |-> FALSE, ret |-> FALSE]

\* list.remove(event): the first element that is the event get_event found
RemoveAt(s, i) == SubSeq(s, 1, i - 1) \o SubSeq(s, i + 1, Len(s))

\* self.events.pop(0) in place of self.events.remove(event)
delete_event_pops_first(self, event_id) ==
    IF \E i \in 1 .. Len(self.events) : self.events[i].id = event_id
    THEN [events |-> Tail(self.events), saves |-> TRUE, ret |-> TRUE]
    ELSE [events |-> self.events, saves |-> FALSE, ret |-> FALSE]

delete_event(self, event_id) ==
    LET i == FirstIndex(self.events, event_id, 1)
    IN IF i # 0
       THEN [events |-> RemoveAt(self.events, i), saves |-> TRUE, ret |-> TRUE]
       ELSE [events |-> self.events, saves |-> FALSE, ret |-> FALSE]

\* str < str in Python: by code point, a proper prefix is smaller
LexLess(a, b) ==
    \E k \in 1 .. (Len(b)) :
        /\ \A j \in 1 .. (k - 1) : j <= Len(a) /\ a[j] = b[j]
        /\ \/ k > Len(a)
           \/ (k <= Len(a) /\ a[k] < b[k])

\* (e.date, e.time) < (f.date, f.time) as Python tuples
KeyLess(e, f) ==
    \/ LexLess(e.date, f.date)
    \/ (e.date = f.date /\ LexLess(e.time, f.time))

\* sorted() is stable: an element goes after every element not greater
RECURSIVE InsertSorted(_, _)
InsertSorted(s, e) ==
    IF s = <<>> THEN <<e>>
    ELSE IF KeyLess(e, Head(s)) THEN <<e>> \o s
    ELSE <<Head(s)>> \o InsertSorted(Tail(s), e)

RECURSIVE sorted(_)
sorted(s) ==
    IF s = <<>> THEN <<>>
    ELSE InsertSorted(sorted(SubSeq(s, 1, Len(s) - 1)), s[Len(s)])

RECURSIVE Select(_, _)
Select(s, date) ==
    IF s = <<>> THEN <<>>
    ELSE IF Head(s).date = date THEN <<Head(s)>> \o Select(Tail(s), date)
    ELSE Select(Tail(s), date)

\* the unfiltered listing sorted by date alone
RECURSIVE InsertByDate(_, _)
InsertByDate(s, e) ==
    IF s = <<>> THEN <<e>>
    ELSE IF LexLess(e.date, Head(s).date) THEN <<e>> \o s
    ELSE <<Head(s)>> \o InsertByDate(Tail(s), e)

RECURSIVE SortedByDate(_)
SortedByDate(s) ==
    IF s = <<>> THEN <<>>
    ELSE InsertByDate(SortedByDate(SubSeq(s, 1, Len(s) - 1)), s[Len(s)])

list_events_by_date(evs, date) ==
    IF date # Null /\ date[1] # <<>> THEN Select(evs, date[1])
    ELSE SortedByDate(evs)

\* "if date:" is false for None and for the empty text
list_events(evs, date) ==
    IF date # Null /\ date[1] # <<>> THEN Select(evs, date[1])
    ELSE sorted(evs)

(***************************************************************************)
(* Inputs explored.                                                        *)
(***************************************************************************)
\* events handed to add_event: one as Event(...) builds it, one carrying
\* a stale id
NewEvents ==
    { Event("A", <<1, 5>>, <<1, 0>>, "x"),
      [Event("A", <<9>>, <<1, 0>>, "x") EXCEPT !.id = 1] }

IdArgs == (1 .. MaxId) \cup {None}

\* keyword arguments of update_event: <<title, date, time, description>>
UpdateArgs ==
    { <<Null, Null, Null, Null>>,
      <<Some(""), Null, Null, Null>>,
      <<Null, Some(<<9>>), Null, Null>>,
      <<Null, Null, Some(<<1>>), Some("")>> }

DateArgs == {Null} \cup {Some(d) : d \in Dates}

Outcomes == IF faulty /\ fails < MaxFail THEN SaveOutcomes ELSE {"ok"}

\* event mappings of files that no save_events wrote
ItemFull(i) ==
    [id |-> i, title |-> "A", date |-> <<9>>, time |-> <<1>>,
     description |-> ""]
ItemNoDescription(i) ==
    [id |-> i, title |-> "A", date |-> <<1, 5>>, time |-> <<1>>]
ItemNoId ==
    [title |-> "", date |-> <<9>>, time |-> <<1, 0>>, description |-> "x"]
ItemNoTitle ==
    [id |-> 1, date |-> <<9>>, time |-> <<1>>, description |-> "x"]

\* JSON objects found in the file: every key of the top level and of an
\* event mapping is optional for json.load
FileData ==
    { <<>>,
      [next_id |-> 3],
      [events |-> <<ItemFull(1)>>],
      [next_id |-> 2, events |-> <<ItemNoId>>],
      [next_id |-> 3, events |-> <<ItemFull(1), ItemNoDescription(1)>>],
      [next_id |-> 3, events |-> <<ItemFull(1), ItemNoDescription(2)>>],
      [next_id |-> 2, events |-> <<ItemNoTitle>>],
      [next_id |-> 3, events |-> <<ItemFull(1), ItemNoTitle>>],
      [next_id |-> 2, events |-> <<NotAMapping>>] }

AnyFiles == {Absent, Invalid, NonMapping} \cup {Mapping(d) : d \in FileData}

(***************************************************************************)
(* The state machine.                                                      *)
(***************************************************************************)
\* manager = ScheduleManager(): a new object on the file as it stands
Init ==
    /\ file = Absent
    /\ faulty = FALSE
    /\ fails = 0
    /\ events = init(file).events
    /\ next_id = init(file).next_id
    /\ alive = ~init(file).raised
    /\ last = [op |-> "construct", raised |-> init(file).raised]
    /\ issued = {}
    /\ live = {}
    /\ assigned = <<>>
    /\ procs = <<>>

InitAnyFile ==
    /\ file \in AnyFiles
    /\ faulty = FALSE
    /\ fails = 0
    /\ events = init(file).events
    /\ next_id = init(file).next_id
    /\ alive = ~init(file).raised
    /\ last = [op |-> "construct", raised |-> init(file).raised]
    /\ issued = {}
    /\ live = {}
    /\ assigned = <<>>
    /\ procs = <<>>

Construct ==
    /\ events' = init(file).events
    /\ next_id' = init(file).next_id
    /\ alive' = ~init(file).raised
    /\ last' = [op |-> "construct", raised |-> init(file).raised]
    /\ issued' = {}
    /\ live' = {}
    /\ UNCHANGED <<file, faulty, fails, assigned, procs>>

Failed(o) == IF o = "ok" THEN 0 ELSE 1

AddEvent(event, o) ==
    /\ alive
    /\ Len(events) < MaxEvents
    /\ next_id <= MaxId
    /\ LET r == add_event(Self(events, next_id), event)
           e == r.events[Len(r.events)]
       IN /\ events' = r.events
          /\ next_id' = r.next_id
          /\ file' = save_events(r, o, file)
          /\ last' = [op |-> "add", event |-> event, saved |-> o,
                      ret |-> IF o = "ok" THEN Some(e) ELSE Null]
          /\ issued' = issued \cup {e.id}
          /\ assigned' = Append(assigned, e.id)
          /\ live' = IF o = "ok" THEN live \cup {e.id} ELSE live
          /\ fails' = fails + Failed(o)
    /\ UNCHANGED <<alive, faulty, procs>>

GetEvent(event_id) ==
    /\ alive
    /\ last' = [op |-> "get", id |-> event_id,
                ret |-> get_event(events, event_id)]
    /\ UNCHANGED <<events, next_id, file, alive, issued, live, faulty, fails,
                   assigned, procs>>

UpdateEvent(event_id, kw, o) ==
    /\ alive
    /\ LET r == update_event(Self(events, next_id), event_id,
                             kw[1], kw[2], kw[3], kw[4])
       IN /\ (~r.saves => o = "ok")
          /\ events' = r.events
          /\ file' = IF r.saves
                     THEN save_events(Self(r.events, next_id), o, file)
                     ELSE file
          /\ last' = [op |-> "update", id |-> event_id, kw |-> kw,
                      saved |-> IF r.saves THEN o ELSE "none",
                      ret |-> IF o = "ok" THEN Some(r.ret) ELSE Null]
          /\ fails' = fails + Failed(o)
    /\ UNCHANGED <<next_id, alive, issued, live, faulty, assigned, procs>>

DeleteEvent(event_id, o) ==
    /\ alive
    /\ LET r == delete_event(Self(events, next_id), event_id)
       IN /\ (~r.saves => o = "ok")
          /\ events' = r.events
          /\ file' = IF r.saves
                     THEN save_events(Self(r.events, next_id), o, file)
                     ELSE file
          /\ last' = [op |-> "delete", id |-> event_id,
                      saved |-> IF r.saves THEN o ELSE "none",
                      ret |-> IF o = "ok" THEN Some(r.ret) ELSE Null]
          /\ live' = IF r.ret THEN live \ {event_id} ELSE live
          /\ fails' = fails + Failed(o)
    /\ UNCHANGED <<next_id, alive, issued, faulty, assigned, procs>>

\* self.events.sort(key=...) in place of sorted(self.events, key=...)
ListEvents_sorts_in_place(date) ==
    /\ alive
    /\ events' = IF date # Null /\ date[1] # <<>> THEN events ELSE sorted(events)
    /\ last' = [op |-> "list", date |-> date,
                ret |-> list_events(events, date)]
    /\ UNCHANGED <<next_id, file, alive, issued, live, faulty, fails,
                   assigned, procs>>

ListEvents(date) ==
    /\ alive
    /\ last' = [op |-> "list", date |-> date,
                ret |-> list_events(events, date)]
    /\ UNCHANGED <<events, next_id, file, alive, issued, live, faulty, fails,
                   assigned, procs>>

Next ==
    \/ \E event \in NewEvents, o \in Outcomes : AddEvent(event, o)
    \/ \E event_id \in IdArgs : GetEvent(event_id)
    \/ \E event_id \in IdArgs, kw \in UpdateArgs, o \in Outcomes :
          UpdateEvent(event_id, kw, o)
    \/ \E event_id \in IdArgs, o \in Outcomes : DeleteEvent(event_id, o)
    \/ \E date \in DateArgs : ListEvents(date)

\* a manager on a file that only managers have written
Spec == Init /\ [][Next]_vars

\* a manager on a file with any content
SpecAnyFile == InitAnyFile /\ [][Next]_vars

\* the process ends and a later one constructs a manager on the same file
NextRestart == Next \/ Construct

\* successive managers on one file
SpecRestart == Init /\ [][NextRestart]_vars

InitFaulty ==
    /\ file = Absent
    /\ faulty = TRUE
    /\ fails = 0
    /\ events = init(file).events
    /\ next_id = init(file).next_id
    /\ alive = ~init(file).raised
    /\ last = [op |-> "construct", raised |-> init(file).raised]
    /\ issued = {}
    /\ live = {}
    /\ assigned = <<>>
    /\ procs = <<>>

\* successive managers on one file whose writes may fail
SpecFaulty == InitFaulty /\ [][NextRestart]_vars

\* the calls that change which events and ids there are, and the restart
NextCrash ==
    \/ \E event \in NewEvents, o \in Outcomes : AddEvent(event, o)
    \/ \E event_id \in IdArgs, o \in Outcomes : DeleteEvent(event_id, o)
    \/ Construct

\* successive managers that add and delete on one file whose writes may fail
SpecCrash == InitFaulty /\ [][NextCrash]_vars

(***************************************************************************)
(* The command line (src/schedule_cli.py): one invocation is one process,  *)
(* which constructs its own manager on the file and exits.  sys.argv is a  *)
(* sequence of texts; Python's sys.argv[k] is argv[k + 1] here.            *)
(***************************************************************************)
Script == "schedule_cli.py"

\* str.lower() on the command words explored
lower(t) ==
    CASE t = "HELP" -> "help"
      [] t = "Add" -> "add"
      [] OTHER -> t

\* int(text): Null stands for ValueError
int(t) ==
    CASE t = "0" -> Some(0)
      [] t = "1" -> Some(1)
      [] t = "2" -> Some(2)
      [] t = "3" -> Some(3)
      [] t = "4" -> Some(4)
      [] t = "9" -> Some(9)
      [] t = "10" -> Some(10)
      [] t = "15" -> Some(15)
      [] OTHER -> Null

\* the character codes of a date or time given on the command line
Text(t) ==
    CASE t = "" -> <<>>
      [] t = "1" -> <<1>>
      [] t = "9" -> <<9>>
      [] t = "10" -> <<1, 0>>
      [] t = "15" -> <<1, 5>>

\* sep.join(ts)
RECURSIVE join(_, _)
join(sep, ts) ==
    IF ts = <<>> THEN ""
    ELSE IF Len(ts) = 1 THEN ts[1]
         ELSE ts[1] \o sep \o join(sep, Tail(ts))

\* the process ends with this exit code; self is its manager, f the file
Exited(code, self, f, usage) ==
    [exit |-> code, constructed |-> TRUE, raised |-> FALSE, usage |-> usage,
     events |-> self.events, next_id |-> self.next_id, file |-> f,
     added |-> Null]

command_add(argv, manager, f) ==
    IF Len(argv) < 5
    THEN Exited(1, manager, f, FALSE)
    ELSE LET description == IF Len(argv) > 5
                            THEN join(" ", SubSeq(argv, 6, Len(argv)))
                            ELSE ""
             event == Event(argv[3], Text(argv[4]), Text(argv[5]), description)
             r == add_event(manager, event)
         IN [Exited(0, r, save_events(r, "ok", f), FALSE)
                EXCEPT !.added = Some(r.events[Len(r.events)].id)]

command_list(argv, manager, f) ==
    LET date_filter == IF Len(argv) > 2 THEN Some(Text(argv[3])) ELSE Null
        listed == list_events(manager.events, date_filter)
    IN Exited(0, manager, f, FALSE)

command_show(argv, manager, f) ==
    IF Len(argv) < 3
    THEN Exited(1, manager, f, FALSE)
    ELSE LET event_id == int(argv[3])
         IN IF event_id = Null
            THEN Exited(1, manager, f, FALSE)
            ELSE IF get_event(manager.events, event_id[1]) # Null
                 THEN Exited(0, manager, f, FALSE)
                 ELSE Exited(1, manager, f, FALSE)

\* the while loop over the options of update; kw is <<title, date, time,
\* description>>; an option without a value after it is skipped
RECURSIVE ParseOptions(_, _, _)
ParseOptions(argv, i, kw) ==
    IF ~(i <= Len(argv)) THEN kw
    ELSE IF argv[i] = "--title" /\ i + 1 <= Len(argv)
    THEN ParseOptions(argv, i + 2, [kw EXCEPT ![1] = Some(argv[i + 1])])
    ELSE IF argv[i] = "--date" /\ i + 1 <= Len(argv)
    THEN ParseOptions(argv, i + 2, [kw EXCEPT ![2] = Some(Text(argv[i + 1]))])
    ELSE IF argv[i] = "--time" /\ i + 1 <= Len(argv)
    THEN ParseOptions(argv, i + 2, [kw EXCEPT ![3] = Some(Text(argv[i + 1]))])
    ELSE IF argv[i] = "--description" /\ i + 1 <= Len(argv)
    THEN ParseOptions(argv, i + 2, [kw EXCEPT ![4] = Some(argv[i + 1])])
    ELSE ParseOptions(argv, i + 1, kw)

command_update(argv, manager, f) ==
    IF Len(argv) < 3
    THEN Exited(1, manager, f, FALSE)
    ELSE LET event_id == int(argv[3])
             kw == ParseOptions(argv, 4, <<Null, Null, Null, Null>>)
         IN IF event_id = Null
            THEN Exited(1, manager, f, FALSE)
            ELSE LET r == update_event(manager, event_id[1],
                                       kw[1], kw[2], kw[3], kw[4])
                     self == Self(r.events, manager.next_id)
                     g == IF r.saves THEN save_events(self, "ok", f) ELSE f
                 IN Exited(IF r.ret THEN 0 ELSE 1, self, g, FALSE)

command_delete(argv, manager, f) ==
    IF Len(argv) < 3
    THEN Exited(1, manager, f, FALSE)
    ELSE LET event_id == int(argv[3])
         IN IF event_id = Null
            THEN Exited(1, manager, f, FALSE)
            ELSE LET r == delete_event(manager, event_id[1])
                     self == Self(r.events, manager.next_id)
                     g == IF r.saves THEN save_events(self, "ok", f) ELSE f
                 IN Exited(IF r.ret THEN 0 ELSE 1, self, g, FALSE)

\* main(): what the process has done when it ends.  An exception nothing
\* catches ends the process with a traceback and exit code 1.
main(argv, f) ==
    IF Len(argv) < 2
    THEN [Exited(1, Self(<<>>, 1), f, TRUE) EXCEPT !.constructed = FALSE]
    ELSE LET command == lower(argv[2])
             manager == init(f)
         IN IF manager.raised
            THEN [Exited(1, manager, f, FALSE) EXCEPT !.raised = TRUE]
            ELSE CASE command = "help" -> Exited(0, manager, f, TRUE)
                   [] command = "add" -> command_add(argv, manager, f)
                   [] command = "list" -> command_list(argv, manager, f)
                   [] command = "show" -> command_show(argv, manager, f)
                   [] command = "update" -> command_update(argv, manager, f)
                   [] command = "delete" -> command_delete(argv, manager, f)
                   [] OTHER -> Exited(1, manager, f, TRUE)

\* the invocations explored
CliArgs ==
    { <<Script>>,
      <<Script, "help">>,
      <<Script, "HELP">>,
      <<Script, "frobnicate">>,
      <<Script, "add", "A", "15">>,
      <<Script, "add", "A", "15", "10">>,
      <<Script, "Add", "A", "9", "10", "x">>,
      <<Script, "add", "A", "9", "10", "x", "y">>,
      <<Script, "list">>,
      <<Script, "list", "9">>,
      <<Script, "list", "">>,
      <<Script, "show">>,
      <<Script, "show", "1">>,
      <<Script, "show", "3">>,
      <<Script, "show", "x">>,
      <<Script, "update">>,
      <<Script, "update", "1">>,
      <<Script, "update", "x", "--title", "A">>,
      <<Script, "update", "1", "--title", "">>,
      <<Script, "update", "2", "--date", "9", "--title">>,
      <<Script, "update", "3", "--time", "1", "--description", "">>,
      <<Script, "delete">>,
      <<Script, "delete", "1">>,
      <<Script, "delete", "2">>,
      <<Script, "delete", "1.5">> }

\* python schedule_cli.py <argv>: a process from start to exit
Cli(argv) ==
    /\ (Len(argv) >= 5 /\ lower(argv[2]) = "add" /\ ~init(file).raised) =>
           (Len(init(file).events) < MaxEvents /\ init(file).next_id <= MaxId)
    /\ LET r == main(argv, file)
       IN /\ events' = r.events
          /\ next_id' = r.next_id
          /\ file' = r.file
          /\ alive' = (r.constructed /\ ~r.raised)
          /\ last' = [op |-> "cli", argv |-> argv, exit |-> r.exit,
                      constructed |-> r.constructed,
                      read |-> (r.constructed /\ file.kind # "absent"),
                      raised |-> r.raised, usage |-> r.usage]
          /\ issued' = IF r.added # Null THEN {r.added[1]} ELSE {}
          /\ live' = IF r.added # Null THEN {r.added[1]} ELSE {}
          /\ assigned' = IF r.added # Null
                         THEN Append(assigned, r.added[1])
                         ELSE assigned
    /\ UNCHANGED <<faulty, fails, procs>>

NextCli == \E argv \in CliArgs : Cli(argv)

\* successive command-line invocations on a file with any content
SpecCli == InitAnyFile /\ [][NextCli]_vars

(***************************************************************************)
(* Two processes on one file.  Each constructs its own manager and calls   *)
(* add_event once; nothing orders the steps of one process against those   *)
(* of the other: the load in the constructor, the change of memory in      *)
(* add_event, and the write of save_events.                                *)
(***************************************************************************)
Procs == {1, 2}

Other(p) == CHOOSE q \in Procs : q # p

\* the file as earlier managers left it: none, one event, one event deleted
TwoFiles ==
    { Absent,
      Mapping([next_id |-> 2,
               events |-> <<to_dict([Event("A", <<9>>, <<1>>, "")
                                        EXCEPT !.id = 1])>>]),
      Mapping([next_id |-> 2, events |-> <<>>]) }

InitTwo ==
    /\ file \in TwoFiles
    /\ procs = [p \in Procs |->
                   [pc |-> "start", events |-> <<>>, next_id |-> 1,
                    id |-> None, alone |-> TRUE, second |-> FALSE]]
    /\ events = <<>>
    /\ next_id = 1
    /\ alive = FALSE
    /\ last = [op |-> "none"]
    /\ issued = {}
    /\ live = {}
    /\ faulty = FALSE
    /\ fails = 0
    /\ assigned = <<>>

\* manager = ScheduleManager(); alone: the other process is not in between
\* its load and its write
Load(p) ==
    /\ procs[p].pc = "start"
    /\ procs' = [procs EXCEPT ![p] =
                    [@ EXCEPT !.pc = "loaded",
                              !.events = init(file).events,
                              !.next_id = init(file).next_id,
                              !.alone = procs[Other(p)].pc \in {"start", "done"}]]
    /\ UNCHANGED <<events, next_id, file, alive, last, issued, live, faulty,
                   fails, assigned>>

\* add_event up to self.events.append(event)
Mutate(p, event) ==
    /\ procs[p].pc = "loaded"
    /\ LET r == add_event(procs[p], event)
       IN procs' = [procs EXCEPT ![p] =
                       [@ EXCEPT !.pc = "mutated",
                                 !.events = r.events,
                                 !.next_id = r.next_id,
                                 !.id = r.events[Len(r.events)].id]]
    /\ UNCHANGED <<events, next_id, file, alive, last, issued, live, faulty,
                   fails, assigned>>

\* self.save_events() at the end of add_event; second: the other process
\* has written before
Persist(p) ==
    /\ procs[p].pc = "mutated"
    /\ file' = save_events(procs[p], "ok", file)
    /\ procs' = [procs EXCEPT ![p] =
                    [@ EXCEPT !.pc = "done",
                              !.second = (procs[Other(p)].pc = "done")]]
    /\ UNCHANGED <<events, next_id, alive, last, issued, live, faulty, fails,
                   assigned>>

NextTwo ==
    \/ \E p \in Procs : Load(p)
    \/ \E p \in Procs, event \in NewEvents : Mutate(p, event)
    \/ \E p \in Procs : Persist(p)

\* two processes that each add one event to the same file
SpecTwo == InitTwo /\ [][NextTwo]_vars

(***************************************************************************)
(* Properties.                                                             *)
(***************************************************************************)
HasId(evs, i) == \E k \in 1 .. Len(evs) : evs[k].id = i

\* the JSON object save_events is meant to leave in the file
Written(evs, nid) ==
    [kind |-> "mapping",
     data |-> [next_id |-> nid,
               events |-> [k \in 1 .. Len(evs) |->
                              [id |-> evs[k].id, title |-> evs[k].title,
                               date |-> evs[k].date, time |-> evs[k].time,
                               description |-> evs[k].description]]]]

\* C1: on one manager object every add_event gives the event the id
\* next_id held before the call, adds exactly 1 to next_id and appends the
\* event (its other fields as handed in) at the end of the collection; no
\* other call changes next_id, so successive adds hand out ids increasing
\* by 1, and the id handed out was never handed out before by this object,
\* also when its event has been deleted meanwhile.
C1_AddAssignsNextId ==
    [][ /\ last'.op = "add" =>
             /\ events' = Append(events, [last'.event EXCEPT !.id = next_id])
             /\ last'.ret = Some(events'[Len(events')])
             /\ last'.ret[1].id = next_id
             /\ next_id' = next_id + 1
             /\ next_id \notin issued
             /\ issued' = issued \cup {next_id}
        /\ last'.op # "add" => next_id' = next_id /\ issued' = issued
      ]_vars

\* an add that follows the deletion of an event this object had added
C1_Witness ==
    /\ last.op = "add"
    /\ \E i \in issued : i < last.ret[1].id /\ ~HasId(events, i)

IdInvariant ==
    /\ \A k \in 1 .. Len(events) :
          events[k].id # None /\ events[k].id < next_id
    /\ \A k, l \in 1 .. Len(events) : events[k].id = events[l].id => k = l

\* C2 as stated: whatever file the manager was constructed from and
\* whatever was called since, every event has a non-null id below next_id
\* and no two events share an id.
C2_IdInvariantAnyFile == alive => IdInvariant

\* the ids a file holds are present, non-null, distinct and below the
\* next_id it holds (below 1 when it holds none), as in every file
\* save_events writes for a manager that satisfies IdInvariant
FileIdsConsistent(f) ==
    f.kind = "mapping" =>
        LET nid == IF "next_id" \in DOMAIN f.data THEN f.data.next_id ELSE 1
            items == IF "events" \in DOMAIN f.data THEN f.data.events ELSE <<>>
        IN /\ \A k \in 1 .. Len(items) :
                 IsMapping(items[k]) =>
                     /\ "id" \in DOMAIN items[k]
                     /\ items[k].id # None
                     /\ items[k].id < nid
           /\ \A k, l \in 1 .. Len(items) :
                 (IsMapping(items[k]) /\ IsMapping(items[l])
                  /\ "id" \in DOMAIN items[k] /\ "id" \in DOMAIN items[l]
                  /\ items[k].id = items[l].id) => k = l

\* C2 (amended): a manager constructed from a file that is absent,
\* unreadable, or holds ids that are non-null, distinct and below the file's
\* next_id satisfies IdInvariant, and add_event (of a new event), update_event
\* and delete_event keep it.
C2_IdInvariantKept ==
    /\ (alive /\ FileIdsConsistent(file)) => IdInvariant
    /\ [][(alive /\ IdInvariant) => IdInvariant']_vars

\* a manager that loaded an event from a file and then added one to it
C2_Witness ==
    /\ alive
    /\ last.op = "add"
    /\ Len(events) = 2
    /\ events[1].id \notin live
    /\ IdInvariant

Succeeded ==
    \/ last.op = "add" /\ last.ret # Null
    \/ last.op \in {"update", "delete"} /\ last.ret = Some(TRUE)

\* C3: after every add, update or delete that returns success the file
\* holds exactly next_id and the events in collection order, and in every
\* state a manager constructed from the file would hold the same events in
\* the same order and the same next_id: nothing is left unsaved.
C3_WriteThroughRoundTrip ==
    /\ Succeeded => file = Written(events, next_id)
    /\ alive => /\ ~init(file).raised
                /\ init(file).events = events
                /\ init(file).next_id = next_id

\* a successful delete that left an event and a next_id the length of the
\* collection does not give
C3_Witness ==
    /\ last.op = "delete"
    /\ last.ret = Some(TRUE)
    /\ Len(events) = 1
    /\ events[1].description = "x"
    /\ next_id > Len(events) + 1

\* C4: update_event and delete_event with an id no event has return False,
\* call no save_events and leave the events, their order, next_id and the
\* file as they were.
C4_MissingIdChangesNothing ==
    [][ (last'.op \in {"update", "delete"} /\ ~HasId(events, last'.id)) =>
            /\ last'.ret = Some(FALSE)
            /\ last'.saved = "none"
            /\ events' = events
            /\ next_id' = next_id
            /\ file' = file
      ]_vars

\* an update that supplies a field, with an id no event of a non-empty
\* collection has
C4_Witness ==
    /\ last.op = "update"
    /\ last.ret = Some(FALSE)
    /\ last.kw[1] # Null
    /\ Len(events) > 0

Supplied(arg, old) == IF arg # Null THEN arg[1] ELSE old

\* C6: update_event on an id an event has returns True and sets, on that
\* event, each of title, date, time and description that was supplied to the
\* value supplied (the empty text included) and leaves the fields not
\* supplied, the id, the event's position, every other event and next_id as
\* they were.
C6_UpdateSetsSuppliedFields ==
    [][ (last'.op = "update" /\ HasId(events, last'.id)) =>
            /\ last'.ret = Some(TRUE)
            /\ next_id' = next_id
            /\ Len(events') = Len(events)
            /\ \E p \in 1 .. Len(events) :
                  /\ events[p].id = last'.id
                  /\ events'[p] =
                        [id |-> events[p].id,
                         title |-> Supplied(last'.kw[1], events[p].title),
                         date |-> Supplied(last'.kw[2], events[p].date),
                         time |-> Supplied(last'.kw[3], events[p].time),
                         description |->
                             Supplied(last'.kw[4], events[p].description)]
                  /\ \A k \in 1 .. Len(events) :
                        k # p => events'[k] = events[k]
      ]_vars

\* an update that set the title of the second of two events to the empty
\* text
C6_Witness ==
    /\ last.op = "update"
    /\ last.ret = Some(TRUE)
    /\ last.kw = <<Some(""), Null, Null, Null>>
    /\ Len(events) = 2
    /\ events[2].id = last.id
    /\ events[2].title = ""
    /\ events[1].title = "A"

NoFields == <<Null, Null, Null, Null>>

\* C7 as stated: update_event with no field supplied, on an id an event
\* has, returns True, changes no event, and rewrites the file with the
\* content it had.
C7_EmptyUpdateSameFile ==
    [][ (last'.op = "update" /\ last'.kw = NoFields
         /\ HasId(events, last'.id)) =>
            /\ last'.ret = Some(TRUE)
            /\ events' = events
            /\ next_id' = next_id
            /\ last'.saved = "ok"
            /\ file' = file
      ]_vars

\* C7 (amended): update_event with no field supplied, on an id an event
\* has, returns True, changes no event and not next_id, and rewrites the file
\* with the unchanged state: the content is the one the file had only when
\* the file already held exactly that state.
C7_EmptyUpdateRewritesState ==
    [][ (last'.op = "update" /\ last'.kw = NoFields
         /\ HasId(events, last'.id)) =>
            /\ last'.ret = Some(TRUE)
            /\ events' = events
            /\ next_id' = next_id
            /\ last'.saved = "ok"
            /\ file' = Written(events, next_id)
            /\ file = Written(events, next_id) => file' = file
      ]_vars

\* an update with no field, the first call on a manager whose file gave
\* its event no description
C7_Witness ==
    /\ last.op = "update"
    /\ last.kw = NoFields
    /\ last.ret = Some(TRUE)
    /\ issued = {}
    /\ Len(events) = 2
    /\ file = Written(events, next_id)
    /\ events[2].description = ""

\* C8: list_events with a date filter supplied, the empty text included,
\* returns the events whose date is the filter, each once, in the order of
\* the collection.
C8_FilterReturnsMatchesInOrder ==
    (last.op = "list" /\ last.date # Null) =>
        last.ret = SelectSeq(events, LAMBDA e : e.date = last.date[1])

\* t is s reordered by pi
IsReordering(t, s, pi) ==
    /\ \A k, l \in 1 .. Len(s) : pi[k] = pi[l] => k = l
    /\ \A k \in 1 .. Len(s) : t[k] = s[pi[k]]

\* C9: list_events without a filter returns all events of the collection,
\* each once, in ascending order of date and, for equal dates, of time, both
\* compared as text; events equal in date and time keep the order they have
\* in the collection.
C9_UnfilteredIsStableSort ==
    (last.op = "list" /\ last.date = Null) =>
        /\ Len(last.ret) = Len(events)
        /\ \E pi \in [1 .. Len(events) -> 1 .. Len(events)] :
              /\ IsReordering(last.ret, events, pi)
              /\ \A k, l \in 1 .. Len(events) :
                    k < l =>
                       LET a == last.ret[k]
                           b == last.ret[l]
                       IN \/ LexLess(a.date, b.date)
                          \/ a.date = b.date /\ LexLess(a.time, b.time)
                          \/ a.date = b.date /\ a.time = b.time
                             /\ pi[k] < pi[l]

\* an unfiltered listing that moved the second event before the first
\* because of its time, the dates being equal
C9_Witness ==
    /\ last.op = "list"
    /\ last.date = Null
    /\ Len(events) = 2
    /\ events[1].date = events[2].date
    /\ last.ret = <<events[2], events[1]>>

\* the file cannot be read as a mapping of next_id and events
Unreadable(f) ==
    \/ f.kind \in {"invalid", "nonmapping"}
    \/ /\ f.kind = "mapping"
       /\ "events" \in DOMAIN f.data
       /\ \E k \in 1 .. Len(f.data.events) :
             \/ ~IsMapping(f.data.events[k])
             \/ ~({"title", "date", "time"} \subseteq DOMAIN f.data.events[k])

\* C10: the constructor returns whatever the file holds; without a file,
\* and with a file that cannot be read as the expected structure, the
\* manager is empty with next_id = 1.
C10_ConstructNeverFails ==
    last.op = "construct" =>
        /\ ~last.raised
        /\ alive
        /\ (file.kind = "absent" \/ Unreadable(file)) =>
              (events = <<>> /\ next_id = 1)

\* the events of evs whose id is not i, in the order evs has them
RECURSIVE Without(_, _)
Without(evs, i) ==
    IF evs = <<>> THEN <<>>
    ELSE IF Head(evs).id = i THEN Without(Tail(evs), i)
         ELSE <<Head(evs)>> \o Without(Tail(evs), i)

\* C11: delete_event on an id an event of the collection has returns True
\* and takes exactly one entry out, the one with that id; the other events
\* keep their fields and their order; next_id stays as it was and differs
\* from the deleted id, so that the next add_event does not hand it out.
C11_DeleteRemovesOnlyThatEvent ==
    [][ (last'.op = "delete" /\ HasId(events, last'.id)) =>
            /\ last'.ret = Some(TRUE)
            /\ Len(events') = Len(events) - 1
            /\ events' = Without(events, last'.id)
            /\ next_id' = next_id
            /\ next_id' # last'.id
      ]_vars

\* the first of two events was deleted and the second one is still there
C11_Witness ==
    /\ last.op = "delete"
    /\ last.ret = Some(TRUE)
    /\ Len(events) = 1
    /\ events[1].id > last.id

\* C12: add_event, update_event and delete_event are all-or-nothing: when
\* the write succeeds the file holds the changed memory, and when the write
\* fails the collection and next_id are as before the call and the file is
\* as before the call.
C12_AllOrNothing ==
    [][ last'.op \in {"add", "update", "delete"} =>
            /\ last'.saved = "ok" => file' = Written(events', next_id')
            /\ last'.saved \in {"open_failed", "write_failed"} =>
                  /\ events' = events
                  /\ next_id' = next_id
                  /\ file' = file
      ]_vars

\* C13: the help command prints the usage text without touching the store:
\* the invocation constructs no manager and neither reads nor writes the
\* file, whatever the file holds.
C13_HelpTouchesNoStore ==
    [][ (last'.op = "cli" /\ Len(last'.argv) >= 2
         /\ lower(last'.argv[2]) = "help") =>
            /\ last'.usage
            /\ ~last'.constructed
            /\ ~last'.read
            /\ file' = file
      ]_vars

\* the invocations the command line answers with exit code 1: no command,
\* a required argument missing, an id that is not an integer, an unknown
\* command, an id no event of the file has
ExitsWithOne(argv, f) ==
    \/ Len(argv) < 2
    \/ /\ Len(argv) >= 2
       /\ LET command == lower(argv[2])
          IN \/ command = "add" /\ Len(argv) < 5
             \/ command \notin {"help", "add", "list", "show", "update", "delete"}
             \/ /\ command \in {"show", "update", "delete"}
                /\ \/ Len(argv) < 3
                   \/ Len(argv) >= 3 /\ int(argv[3]) = Null
                   \/ /\ Len(argv) >= 3
                      /\ int(argv[3]) # Null
                      /\ ~HasId(init(f).events, int(argv[3])[1])

\* C14: an invocation exits with code 1 exactly when no command or a
\* required argument is missing, the id is not an integer, the command is
\* unknown or the id matches no event, and then the file is left as it
\* was; every other invocation exits with code 0.
C14_ExitCodes ==
    [][ last'.op = "cli" =>
            /\ last'.exit \in {0, 1}
            /\ last'.exit = 1 <=> ExitsWithOne(last'.argv, file)
            /\ last'.exit = 1 => file' = file
      ]_vars

\* C15: over successive managers on one file that only managers wrote and
\* whose writes succeed, no id is assigned by two calls of add_event, also
\* when the event with the highest id was deleted before a manager was
\* constructed anew: the ids assigned so far increase by 1 from 1 and lie
\* below the next_id of the manager and of the file.
C15_IdsUniqueAcrossRestarts ==
    /\ \A k, l \in 1 .. Len(assigned) : assigned[k] = assigned[l] => k = l
    /\ \A k \in 1 .. Len(assigned) : assigned[k] = k /\ assigned[k] < next_id
    /\ file.kind = "mapping" =>
          \A k \in 1 .. Len(assigned) : assigned[k] < init(file).next_id

\* a manager constructed after the event with the highest id was deleted
\* has added an event, which got the id after the deleted one
C15_Witness ==
    /\ last.op = "add"
    /\ Len(assigned) >= 2
    /\ issued = {assigned[Len(assigned)]}
    /\ ~HasId(events, assigned[Len(assigned) - 1])
    /\ last.ret[1].id = assigned[Len(assigned) - 1] + 1

\* C16: get_event and list_events, with or without a date, change nothing:
\* the collection with its order, next_id and the file are after the call
\* what they were before it; so a write that follows a sorted listing
\* still puts the events into the file in the order of the collection.
C16_QueriesChangeNothing ==
    [][ /\ last'.op \in {"get", "list"} =>
             /\ events' = events
             /\ next_id' = next_id
             /\ file' = file
        /\ (last.op = "list" /\ last'.op \in {"add", "update", "delete"}
            /\ last'.saved = "ok") =>
             file'.data.events =
                 [k \in 1 .. Len(events') |-> to_dict(events'[k])]
      ]_vars

\* an unfiltered listing gave the two events in the other order, and the
\* collection and the file still have them as they were added
C16_Witness ==
    /\ last.op = "list"
    /\ last.date = Null
    /\ Len(events) = 2
    /\ events[1].id < events[2].id
    /\ last.ret = <<events[2], events[1]>>
    /\ file = Written(events, next_id)

\* C17: a write that fails after the file was opened leaves a file that
\* cannot be parsed; a manager constructed on such a file is constructed
\* without error, is empty and has next_id = 1, so that every event the
\* file held before is gone, and its first add_event assigns id 1, an id
\* that was assigned before whenever any id was.
C17_FailedWriteLosesTheStore ==
    [][ /\ (last'.op \in {"add", "update", "delete"}
            /\ last'.saved = "write_failed") => file' = Invalid
        /\ (last'.op = "construct" /\ file = Invalid) =>
              /\ alive'
              /\ ~last'.raised
              /\ events' = <<>>
              /\ next_id' = 1
        /\ (last.op = "construct" /\ file = Invalid /\ last'.op = "add") =>
              /\ events'[Len(events')].id = 1
              /\ assigned # <<>> =>
                    \E k \in 1 .. Len(assigned) : assigned[k] = 1
      ]_vars

\* after a failed write and a restart an add_event has assigned an id that
\* was assigned before, and its event is the only one left
C17_Witness ==
    /\ last.op = "add"
    /\ last.saved = "ok"
    /\ fails > 0
    /\ \E k, l \in 1 .. Len(assigned) : k < l /\ assigned[k] = assigned[l]
    /\ Len(assigned) > 2
    /\ Len(events) = 1
    /\ file = Written(events, next_id)

\* the events of the file that have the id i
Holding(f, i) == {k \in 1 .. Len(f.data.events) : f.data.events[k].id = i}

\* C18: when two processes have each constructed a manager on the same
\* file and added one event, then, if the load of one fell between the
\* load and the write of the other, both events got the same id and the
\* file holds what the process that wrote last had in memory, with one
\* event under that id; and if one process had finished before the other
\* loaded, the ids differ and the file holds both events.
C18_TwoWriters ==
    (\A p \in Procs : procs[p].pc = "done") =>
        LET w == CHOOSE p \in Procs : procs[p].second
            v == Other(w)
        IN /\ file = Written(procs[w].events, procs[w].next_id)
           /\ (\E p \in Procs : ~procs[p].alone) =>
                 /\ procs[v].id = procs[w].id
                 /\ Cardinality(Holding(file, procs[w].id)) = 1
                 /\ Len(file.data.events) = Len(procs[v].events)
           /\ (\A p \in Procs : procs[p].alone) =>
                 /\ procs[v].id # procs[w].id
                 /\ Cardinality(Holding(file, procs[v].id)) = 1
                 /\ Cardinality(Holding(file, procs[w].id)) = 1
                 /\ Len(file.data.events) = Len(procs[v].events) + 1

\* both processes loaded before either wrote: their two different events
\* got the same id and the file holds only the one written last
C18_Witness ==
    /\ \A p \in Procs : procs[p].pc = "done"
    /\ \E p \in Procs : ~procs[p].alone
    /\ procs[1].id = procs[2].id
    /\ procs[1].events # procs[2].events
    /\ \E w \in Procs :
          /\ procs[w].second
          /\ file = Written(procs[w].events, procs[w].next_id)
          /\ \A k \in 1 .. Len(file.data.events) :
                file.data.events[k] #
                    to_dict(procs[Other(w)].events[Len(procs[Other(w)].events)])

====
